---------------------------- MODULE Spec2Model ----------------------------
(***************************************************************************)
(* Model of main.py: the exhibitor index pagination loop                   *)
(* (fetch_all_exhibitors), the per-hit record construction (parse_json)    *)
(* and the contact scrape (extract_extra_info).                            *)
(*                                                                         *)
(* Python strings are sequences of one-character strings; Python's None is *)
(* the one-element sequence None below, which no string equals.  A dict is *)
(* a function from its keys.  The value a call produces is a record tagged *)
(* "dict", "None" or "raise".                                              *)
(***************************************************************************)
EXTENDS Naturals, Sequences, FiniteSets, TLC

VARIABLES
    \* fetch_all_exhibitors: its parameters, locals and position
    start_page, max_retries, page, attempt, all_exhibitors, exhibitors,
    parsed_exhibitors, pc, error,
    \* the remote index (how it answers) and the history of the run; scraped
    \* holds the entities of the current page whose page was requested (the
    \* cursor never returns to a page)
    index, requested, processed, skipped, indexFails, lastResponse, lastScrape,
    delays, scraped,
    \* one isolated call of parse_json / extract_extra_info
    enterprise_info, answer, extra_information, record, called,
    \* main: the list it exports, the rows exported, and how the export ended
    parsed_data, df_exhibitors, exported

vars == <<start_page, max_retries, page, attempt, all_exhibitors, exhibitors,
          parsed_exhibitors, pc, error, index, requested, processed, skipped,
          indexFails, lastResponse, lastScrape, delays, scraped,
          enterprise_info, answer, extra_information, record, called,
          parsed_data, df_exhibitors, exported>>

driverVars == <<start_page, max_retries, page, attempt, all_exhibitors,
                exhibitors, parsed_exhibitors, pc, error, index, requested,
                processed, skipped, indexFails, lastResponse, lastScrape,
                delays, scraped>>

callVars == <<enterprise_info, answer, extra_information, record, called,
              parsed_data, df_exhibitors, exported>>

exportVars == <<parsed_data, df_exhibitors, exported>>

---------------------------------------------------------------------------
(* Bounds of the model *)

\* highest page index the cursor may reach
MaxPage == 2
\* largest retry budget a caller passes
MaxRetries == 2
\* longest hit list of an index that answers as it likes
MaxHits == 2
\* most pieces an href is concatenated from
MaxPieces == 2
\* most records exported
MaxRows == 2
\* most elements of an interests list
MaxInterests == 2

\* hitsPerPage of the index query
HitsPerPage == 24

---------------------------------------------------------------------------
(* Python values *)

None == <<"<None>">>

Truthy(x) == x # None /\ x # <<>>

Raise(e) == [tag |-> "raise", exc |-> e]

Dict(d) == [tag |-> "dict", val |-> d]

PyNone == [tag |-> "None"]

\* dict.get(key): the value, or None when the key is absent
Get(d, k) == IF k \in DOMAIN d THEN d[k] ELSE None

\* d | e for two dicts: the keys of both, e's value where both have the key
Union(d, e) ==
    [k \in DOMAIN d \cup DOMAIN e |-> IF k \in DOMAIN e THEN e[k] ELSE d[k]]

\* d | v: a dict when v is a dict, TypeError when v is None
DictOr(d, v) ==
    IF v.tag = "dict" THEN Dict(Union(d, v.val)) ELSE Raise("TypeError")

StartsAt(s, old, i) ==
    /\ i + Len(old) - 1 <= Len(s)
    /\ SubSeq(s, i, i + Len(old) - 1) = old

RECURSIVE ReplaceFrom(_, _, _, _)
ReplaceFrom(s, old, new, i) ==
    IF i > Len(s) THEN <<>>
    ELSE IF StartsAt(s, old, i)
         THEN new \o ReplaceFrom(s, old, new, i + Len(old))
         ELSE <<s[i]>> \o ReplaceFrom(s, old, new, i + 1)

\* str.replace(old, new) for a non-empty old: every non-overlapping
\* occurrence, left to right
Replace(s, old, new) == ReplaceFrom(s, old, new, 1)

MAILTO == <<"m", "a", "i", "l", "t", "o", ":">>
TEL == <<"t", "e", "l", ":">>

EMAIL_ICON == "fa-solid fa-envelope mr-2"
PHONE_ICON == "fa-solid fa-phone mr-2"
WEB_ICON == "fa-solid fa-globe mr-2"
LINKEDIN_ICON == "fa-brands fa-linkedin mr-2"

IconClasses == {EMAIL_ICON, PHONE_ICON, WEB_ICON, LINKEDIN_ICON}

---------------------------------------------------------------------------
(* extract_extra_info *)

\* A parsed page (soup) maps each icon class to what the page holds for it:
\* whether an <i> of that class exists, whether it has an enclosing <a>,
\* whether that <a> has an href, and the href.
NoIcon == [icon |-> FALSE, a_tag |-> FALSE, has_href |-> FALSE, href |-> <<>>]
NoLink == [icon |-> TRUE, a_tag |-> FALSE, has_href |-> FALSE, href |-> <<>>]
NoHref == [icon |-> TRUE, a_tag |-> TRUE, has_href |-> FALSE, href |-> <<>>]
Linked(h) == [icon |-> TRUE, a_tag |-> TRUE, has_href |-> TRUE, href |-> h]

extract_href_from_icon(soup, icon_class) ==
    LET icon == soup[icon_class]
    IN  IF icon.icon
        THEN IF icon.a_tag /\ icon.has_href THEN icon.href ELSE None
        ELSE None

\* What the web answers to a GET
OkResponse(soup) == [tag |-> "response", ok |-> TRUE, soup |-> soup]
NotOkResponse == [tag |-> "response", ok |-> FALSE]
TransportError == Raise("RequestException")

\* requests.get(url): a url without a scheme (None, "") raises MissingSchema,
\* a RequestException, before anything is sent; otherwise the web answers
RequestsGet(url, ans) ==
    IF url = None \/ url = <<>> THEN Raise("RequestException") ELSE ans

\* ContactDict with the website stored under the key the index uses
ContactDictCollides(email, phone_number, web, linkedIn) ==
    [email |-> IF Truthy(email) THEN Replace(email, MAILTO, <<>>) ELSE None,
     phone_number |-> IF Truthy(phone_number)
                      THEN Replace(phone_number, TEL, <<>>) ELSE None,
     url |-> web,
     linkedIn |-> linkedIn]

ContactDict(email, phone_number, web, linkedIn) ==
    [email |-> IF Truthy(email) THEN Replace(email, MAILTO, <<>>) ELSE None,
     phone_number |-> IF Truthy(phone_number)
                      THEN Replace(phone_number, TEL, <<>>) ELSE None,
     web |-> web,
     linkedIn |-> linkedIn]

extract_extra_info(url, ans) ==
    LET r == RequestsGet(url, ans)
    IN  IF r.tag = "raise" THEN r
        ELSE IF r.ok
             THEN Dict(ContactDict(
                      extract_href_from_icon(r.soup, EMAIL_ICON),
                      extract_href_from_icon(r.soup, PHONE_ICON),
                      extract_href_from_icon(r.soup, WEB_ICON),
                      extract_href_from_icon(r.soup, LINKEDIN_ICON)))
             ELSE PyNone

---------------------------------------------------------------------------
(* parse_json *)

IndexFields(e) ==
    [id |-> Get(e, "externalId"),
     name |-> Get(e, "name"),
     interests |-> Get(e, "interests"),
     url |-> Get(e, "url"),
     country |-> Get(e, "country"),
     is_startup |-> Get(e, "startUp"),
     stage |-> Get(e, "stage"),
     founding |-> Get(e, "foundingYear")]

parse_json(e, ans) ==
    LET extra == extract_extra_info(Get(e, "url"), ans)
    IN  IF extra.tag = "raise" THEN extra
        ELSE DictOr(IndexFields(e), extra)

---------------------------------------------------------------------------
(* The index and the web, as fetch_all_exhibitors meets them *)

Id(p, i) == <<"p", ToString(p), "h", ToString(i)>>

URL == <<"u">>

\* a raw hit; the keys a hit lacks are simply absent
Hit(p, i, kind) ==
    IF kind = "absent"
    THEN [externalId |-> Id(p, i), name |-> <<"n">>]
    ELSE [externalId |-> Id(p, i), name |-> <<"n">>,
          url |-> IF kind = "empty" THEN <<>> ELSE URL]

UrlKinds == {"valid", "absent"}

FullPage(p) == [i \in 1..HitsPerPage |-> Hit(p, i, "valid")]

\* the hit lists the index may hold for page p
HitLists(p) ==
    UNION {{[i \in 1..n |-> Hit(p, i, k[i])] : k \in [1..n -> UrlKinds]} :
           n \in 0..MaxHits}

\* the page every entity url of the model serves: all four markers linked
Site ==
    (EMAIL_ICON :> Linked(MAILTO \o <<"a">>)) @@
    (PHONE_ICON :> Linked(TEL \o <<"5">>)) @@
    (WEB_ICON :> Linked(<<"w">>)) @@
    (LINKEDIN_ICON :> Linked(<<"l">>))

\* what the web may answer when the entity page of a hit is requested
EntityAnswers(hit) ==
    IF Get(hit, "url") = None \/ Get(hit, "url") = <<>>
    THEN {TransportError}
    ELSE {OkResponse(Site), NotOkResponse, TransportError}

OkJson(hits) ==
    [tag |-> "response", ok |-> TRUE, json |-> [results |-> <<[hits |-> hits]>>]]

\* OK bodies that lack results[0].hits
BadJson ==
    {[tag |-> "response", ok |-> TRUE, json |-> [message |-> <<"e">>]],
     [tag |-> "response", ok |-> TRUE, json |-> [results |-> <<[nbHits |-> <<"0">>]>>]]}

\* the two ways the index behaves: "any" answers each request as it likes,
\* "mock" answers page 0 with a full page of hits and every later page with
\* an empty hit list
IndexAnswers(idx, p) ==
    IF idx = "mock"
    THEN {OkJson(IF p = 0 THEN FullPage(p) ELSE <<>>)}
    ELSE {OkJson(h) : h \in HitLists(p)} \cup BadJson
         \cup {NotOkResponse, TransportError}

---------------------------------------------------------------------------
(* fetch_all_exhibitors *)

\* result['results'][0]['hits']
HitsOf(result) ==
    IF "results" \notin DOMAIN result THEN Raise("KeyError")
    ELSE IF "hits" \notin DOMAIN result.results[1] THEN Raise("KeyError")
    ELSE [tag |-> "list", val |-> result.results[1].hits]

\* Classify with an empty hit list taken for a failed attempt
ClassifyEmptyRetries(ans) ==
    IF ans.tag = "raise" THEN "retry"
    ELSE IF ~ans.ok THEN "retry"
    ELSE IF HitsOf(ans.json).tag = "raise" THEN "raise"
    ELSE IF HitsOf(ans.json).val = <<>> THEN "retry"
    ELSE "process"

\* what one attempt does with the answer to its index request:
\* "retry" (sleep, next attempt), "raise" (the exception leaves the function),
\* "return" (stop), "process" (parse the hits)
Classify(ans) ==
    IF ans.tag = "raise" THEN "retry"
    ELSE IF ~ans.ok THEN "retry"
    ELSE IF HitsOf(ans.json).tag = "raise" THEN "raise"
    ELSE IF HitsOf(ans.json).val = <<>> THEN "return"
    ELSE "process"

ResponseKind(ans) ==
    IF ans.tag = "raise" THEN "exception"
    ELSE IF ~ans.ok THEN "status"
    ELSE IF HitsOf(ans.json).tag = "raise" THEN "badshape"
    ELSE IF HitsOf(ans.json).val = <<>> THEN "empty"
    ELSE "hits"

\* Collected with each record appended as soon as it is parsed
CollectedEager(all, parsed, done) == Append(all, parsed[Len(parsed)])

\* Collected with the page put in front of the records already collected
CollectedInFront(all, parsed, done) == IF done THEN parsed \o all ELSE all

\* Collected with the page's records added a second time
CollectedTwice(all, parsed, done) ==
    IF done THEN (all \o parsed) \o parsed ELSE all

\* all_exhibitors after one more hit was parsed: extended by the whole page
\* once its last hit is parsed
Collected(all, parsed, done) == IF done THEN all \o parsed ELSE all

\* requests.post and lines 137-143, 154-160
Post ==
    /\ pc = "for"
    /\ attempt < max_retries
    /\ page <= MaxPage
    /\ \E ans \in IndexAnswers(index, page) :
        /\ requested' = Append(requested, page)
        /\ lastResponse' = ResponseKind(ans)
        /\ indexFails' = IF Classify(ans) = "retry" THEN indexFails + 1 ELSE indexFails
        /\ \/ /\ Classify(ans) = "retry"
              /\ pc' = "sleep_fail"
              /\ UNCHANGED <<exhibitors, error>>
           \/ /\ Classify(ans) = "raise"
              /\ pc' = "raised"
              /\ error' = HitsOf(ans.json).exc
              /\ UNCHANGED exhibitors
           \/ /\ Classify(ans) = "return"
              /\ pc' = "returned"
              /\ UNCHANGED <<exhibitors, error>>
           \/ /\ Classify(ans) = "process"
              /\ pc' = "parse"
              /\ exhibitors' = HitsOf(ans.json).val
              /\ UNCHANGED error
    /\ parsed_exhibitors' = <<>>
    /\ lastScrape' = "none"
    /\ UNCHANGED <<start_page, max_retries, page, attempt, all_exhibitors,
                   index, processed, skipped, delays, scraped>>
    /\ UNCHANGED callVars

ScrapeKind(hit, ans) ==
    IF Get(hit, "url") = None \/ Get(hit, "url") = <<>> THEN "badurl"
    ELSE IF ans.tag = "raise" THEN "exception"
    ELSE IF ~ans.ok THEN "notok"
    ELSE "ok"

\* one element of the comprehension of line 146 and, after the last one,
\* lines 147-150.  exhibitors and the comprehension's partial list are dead
\* once the comprehension ends, and are cleared then.
ParseHit ==
    /\ pc = "parse"
    /\ LET ex == exhibitors[Len(parsed_exhibitors) + 1]
       IN \E ans \in EntityAnswers(ex) :
           LET r == parse_json(ex, ans)
               done == Len(parsed_exhibitors) + 1 = Len(exhibitors)
           IN /\ lastScrape' = ScrapeKind(ex, ans)
              /\ scraped' = IF ScrapeKind(ex, ans) = "badurl"
                            THEN scraped
                            ELSE scraped \cup {ex.externalId}
              /\ \/ /\ r.tag = "raise" /\ r.exc = "RequestException"
                    /\ pc' = "sleep_fail"
                    /\ parsed_exhibitors' = <<>>
                    /\ exhibitors' = <<>>
                    /\ UNCHANGED <<all_exhibitors, page, processed, error>>
                 \/ /\ r.tag = "raise" /\ r.exc # "RequestException"
                    /\ pc' = "raised"
                    /\ error' = r.exc
                    /\ parsed_exhibitors' = <<>>
                    /\ exhibitors' = <<>>
                    /\ UNCHANGED <<all_exhibitors, page, processed>>
                 \/ /\ r.tag = "dict"
                    /\ parsed_exhibitors' =
                           IF done THEN <<>> ELSE Append(parsed_exhibitors, r.val)
                    /\ all_exhibitors' =
                           Collected(all_exhibitors,
                                     Append(parsed_exhibitors, r.val), done)
                    /\ processed' =
                           IF done
                           THEN Append(processed,
                                       [page |-> page, hits |-> Len(exhibitors)])
                           ELSE processed
                    /\ page' = IF done THEN page + 1 ELSE page
                    /\ pc' = IF done THEN "sleep_ok" ELSE "parse"
                    /\ exhibitors' = IF done THEN <<>> ELSE exhibitors
                    /\ UNCHANGED error
    /\ UNCHANGED <<start_page, max_retries, attempt, index,
                   requested, skipped, indexFails, lastResponse, delays>>
    /\ UNCHANGED callVars

\* SleepOk with the attempt counter carried over to the next page
SleepOkKeepsAttempt ==
    /\ pc = "sleep_ok"
    /\ delays' = delays + 1
    /\ indexFails' = 0
    /\ scraped' = {}
    /\ pc' = "for"
    /\ UNCHANGED <<start_page, max_retries, page, attempt, all_exhibitors,
                   exhibitors, parsed_exhibitors, error, index, requested,
                   processed, skipped, lastResponse, lastScrape>>
    /\ UNCHANGED callVars

\* time.sleep(delay) of line 151 and the break
SleepOk ==
    /\ pc = "sleep_ok"
    /\ delays' = delays + 1
    /\ attempt' = 0
    /\ indexFails' = 0
    /\ scraped' = {}
    /\ pc' = "for"
    /\ UNCHANGED <<start_page, max_retries, page, all_exhibitors, exhibitors,
                   parsed_exhibitors, error, index, requested, processed,
                   skipped, lastResponse, lastScrape>>
    /\ UNCHANGED callVars

\* time.sleep(delay) of lines 156 and 160, then the next attempt
SleepFail ==
    /\ pc = "sleep_fail"
    /\ delays' = delays + 1
    /\ attempt' = attempt + 1
    /\ pc' = "for"
    /\ UNCHANGED <<start_page, max_retries, page, all_exhibitors, exhibitors,
                   parsed_exhibitors, error, index, requested, processed,
                   skipped, indexFails, lastResponse, lastScrape, scraped>>
    /\ UNCHANGED callVars

\* ForElse stopping the run instead of skipping the page
ForElseStops ==
    /\ pc = "for"
    /\ attempt >= max_retries
    /\ page <= MaxPage
    /\ attempt' = 0
    /\ indexFails' = 0
    /\ skipped' = Append(skipped, [page |-> page, indexFails |-> indexFails])
    /\ pc' = "returned"
    /\ UNCHANGED <<start_page, max_retries, page, all_exhibitors, exhibitors,
                   parsed_exhibitors, error, index, requested, processed,
                   lastResponse, lastScrape, delays, scraped>>
    /\ UNCHANGED callVars

\* ForElse sleeping once more before the next page
ForElseSleeps ==
    /\ pc = "for"
    /\ attempt >= max_retries
    /\ page <= MaxPage
    /\ page' = page + 1
    /\ attempt' = 0
    /\ indexFails' = 0
    /\ skipped' = Append(skipped, [page |-> page, indexFails |-> indexFails])
    /\ scraped' = {}
    /\ delays' = delays + 1
    /\ pc' = "for"
    /\ UNCHANGED <<start_page, max_retries, all_exhibitors, exhibitors,
                   parsed_exhibitors, error, index, requested, processed,
                   lastResponse, lastScrape>>
    /\ UNCHANGED callVars

\* the else of the for loop: retries exhausted, skip the page
ForElse ==
    /\ pc = "for"
    /\ attempt >= max_retries
    /\ page <= MaxPage
    /\ page' = page + 1
    /\ attempt' = 0
    /\ indexFails' = 0
    /\ skipped' = Append(skipped, [page |-> page, indexFails |-> indexFails])
    /\ scraped' = {}
    /\ pc' = "for"
    /\ UNCHANGED <<start_page, max_retries, all_exhibitors, exhibitors,
                   parsed_exhibitors, error, index, requested, processed,
                   lastResponse, lastScrape, delays>>
    /\ UNCHANGED callVars

NoCall ==
    /\ enterprise_info = Hit(0, 1, "valid")
    /\ answer = NotOkResponse
    /\ extra_information = PyNone
    /\ record = PyNone
    /\ called = "no"
    /\ parsed_data = <<>>
    /\ df_exhibitors = <<>>
    /\ exported = "no"

Init ==
    /\ start_page \in 0..1
    /\ max_retries \in 0..MaxRetries
    /\ index \in {"any", "mock"}
    /\ page = start_page
    /\ attempt = 0
    /\ all_exhibitors = <<>>
    /\ exhibitors = <<>>
    /\ parsed_exhibitors = <<>>
    /\ pc = "for"
    /\ error = "none"
    /\ requested = <<>>
    /\ processed = <<>>
    /\ skipped = <<>>
    /\ indexFails = 0
    /\ lastResponse = "none"
    /\ lastScrape = "none"
    /\ delays = 0
    /\ scraped = {}
    /\ NoCall

Next == Post \/ ParseHit \/ SleepOk \/ SleepFail \/ ForElse

Spec == Init /\ [][Next]_vars

---------------------------------------------------------------------------
(* One call of extract_extra_info or parse_json, on inputs drawn from      *)
(* bounded sets                                                            *)

RECURSIVE Concats(_, _)
\* the strings made of at most n pieces of P
Concats(P, n) ==
    IF n = 0 THEN {<<>>}
    ELSE LET prev == Concats(P, n - 1)
         IN  prev \cup {x \o y : x \in prev, y \in P}

Markers(pieces) ==
    {NoIcon, NoLink, NoHref} \cup {Linked(h) : h \in Concats(pieces, MaxPieces)}

MarkersOf(icon_class) ==
    IF icon_class = EMAIL_ICON THEN Markers({MAILTO, <<"a">>})
    ELSE IF icon_class = PHONE_ICON THEN Markers({TEL, <<"5">>})
    ELSE IF icon_class = WEB_ICON THEN Markers({MAILTO, <<"w">>})
    ELSE Markers({<<"l">>})

Soups ==
    {(EMAIL_ICON :> e) @@ (PHONE_ICON :> p) @@ (WEB_ICON :> w) @@
     (LINKEDIN_ICON :> l) :
        e \in MarkersOf(EMAIL_ICON), p \in MarkersOf(PHONE_ICON),
        w \in MarkersOf(WEB_ICON), l \in MarkersOf(LINKEDIN_ICON)}

CallHits ==
    {Hit(0, 1, "valid"), Hit(0, 1, "empty"), Hit(0, 1, "absent"),
     [Hit(0, 1, "valid") EXCEPT !.url = None]}

CallAnswers == {OkResponse(s) : s \in Soups} \cup {NotOkResponse, TransportError}

CallInit ==
    /\ enterprise_info \in CallHits
    /\ answer \in CallAnswers
    /\ extra_information = PyNone
    /\ record = PyNone
    /\ called = "no"
    /\ parsed_data = <<>>
    /\ df_exhibitors = <<>>
    /\ exported = "no"
    /\ start_page = 0
    /\ max_retries = 0
    /\ index = "any"
    /\ page = 0
    /\ attempt = 0
    /\ all_exhibitors = <<>>
    /\ exhibitors = <<>>
    /\ parsed_exhibitors = <<>>
    /\ pc = "idle"
    /\ error = "none"
    /\ requested = <<>>
    /\ processed = <<>>
    /\ skipped = <<>>
    /\ indexFails = 0
    /\ lastResponse = "none"
    /\ lastScrape = "none"
    /\ delays = 0
    /\ scraped = {}

CallExtract ==
    /\ called = "no"
    /\ extra_information' = extract_extra_info(Get(enterprise_info, "url"), answer)
    /\ called' = "extract_extra_info"
    /\ UNCHANGED <<enterprise_info, answer, record>>
    /\ UNCHANGED exportVars
    /\ UNCHANGED driverVars

CallParse ==
    /\ called = "no"
    /\ record' = parse_json(enterprise_info, answer)
    /\ called' = "parse_json"
    /\ UNCHANGED <<enterprise_info, answer, extra_information>>
    /\ UNCHANGED exportVars
    /\ UNCHANGED driverVars

CallNext == CallExtract \/ CallParse

CallSpec == CallInit /\ [][CallNext]_vars

---------------------------------------------------------------------------
(* main: the export of lines 173-175 *)

\* the values an interests cell may hold, with their Python type (a string
\* is held as the one string of val)
PyList(xs) == [type |-> "list", val |-> xs]
PyStr(str) == [type |-> "str", val |-> <<str>>]
PyNull == [type |-> "NoneType", val |-> <<>>]

IsInstanceList(x) == x.type = "list"

RECURSIVE Join(_, _)
\* sep.join(xs)
Join(sep, xs) ==
    IF xs = <<>> THEN <<>>
    ELSE IF Len(xs) = 1 THEN xs[1]
    ELSE xs[1] \o sep \o Join(sep, Tail(xs))

COMMA_SPACE == <<",", " ">>

\* Flatten joining with "," alone
FlattenNoSpace(x) == IF IsInstanceList(x) THEN Join(<<",">>, x.val) ELSE <<>>

\* lambda x: ', '.join(x) if isinstance(x, list) else ''
Flatten(x) == IF IsInstanceList(x) THEN Join(COMMA_SPACE, x.val) ELSE <<>>

InterestNames == {<<"A", "I">>, <<"5", "G">>}

InterestValues ==
    {PyList(xs) : xs \in UNION {[1..n -> InterestNames] : n \in 0..MaxInterests}}
    \cup {PyNull, PyStr(<<"A", "I">>)}

\* a record as parse_json builds it, with the given interests cell
ExportRecord(i, interests) ==
    [Union(IndexFields(Hit(0, i, "valid")),
           extract_extra_info(URL, OkResponse(Site)).val)
        EXCEPT !.interests = interests]

ExportInit ==
    /\ parsed_data \in
          UNION {{[k \in 1..n |-> ExportRecord(k, v[k])] :
                     v \in [1..n -> InterestValues]} : n \in 0..MaxRows}
    /\ df_exhibitors = <<>>
    /\ exported = "no"
    /\ enterprise_info = Hit(0, 1, "valid")
    /\ answer = NotOkResponse
    /\ extra_information = PyNone
    /\ record = PyNone
    /\ called = "no"
    /\ start_page = 0
    /\ max_retries = 0
    /\ index = "any"
    /\ page = 0
    /\ attempt = 0
    /\ all_exhibitors = <<>>
    /\ exhibitors = <<>>
    /\ parsed_exhibitors = <<>>
    /\ pc = "idle"
    /\ error = "none"
    /\ requested = <<>>
    /\ processed = <<>>
    /\ skipped = <<>>
    /\ indexFails = 0
    /\ lastResponse = "none"
    /\ lastScrape = "none"
    /\ delays = 0
    /\ scraped = {}

\* pd.DataFrame(parsed_data), the apply on the interests column, to_csv.
\* A frame built from no record has no interests column: KeyError.
Export ==
    /\ exported = "no"
    /\ IF parsed_data = <<>>
       THEN /\ exported' = "KeyError"
            /\ df_exhibitors' = <<>>
       ELSE /\ exported' = "saved"
            /\ df_exhibitors' =
                  [k \in 1..Len(parsed_data) |->
                      [parsed_data[k] EXCEPT !.interests = Flatten(@)]]
    /\ UNCHANGED <<parsed_data, enterprise_info, answer, extra_information,
                   record, called>>
    /\ UNCHANGED driverVars

ExportNext == Export

ExportSpec == ExportInit /\ [][ExportNext]_vars

---------------------------------------------------------------------------
(* Properties *)

RECURSIVE SumHits(_)
SumHits(ps) == IF ps = <<>> THEN 0 ELSE ps[1].hits + SumHits(Tail(ps))

\* the records all_exhibitors holds of page p
RecordsOf(p) ==
    {k \in 1..Len(all_exhibitors) : all_exhibitors[k].id[2] = ToString(p)}

AllNull == [email |-> None, phone_number |-> None, web |-> None, linkedIn |-> None]

ValidUrl(e) == Get(e, "url") # None /\ Get(e, "url") # <<>>

\* C1: once the index answers a request with an OK response whose hit list
\* is empty, on whatever attempt, fetch_all_exhibitors has returned the
\* accumulated list, and from then on no index request is issued and the
\* list does not change.
C1_EmptyPageStops ==
    /\ [](lastResponse = "empty" => pc = "returned" /\ error = "none")
    /\ [][lastResponse = "empty" =>
            /\ requested' = requested
            /\ all_exhibitors' = all_exhibitors
            /\ pc' = "returned"]_vars

C1_Witness ==
    /\ lastResponse = "empty"
    /\ pc = "returned"
    /\ attempt >= 1
    /\ all_exhibitors # <<>>
    /\ requested[Len(requested)] = page
    /\ Len(requested) >= 3

\* C2: in every reachable state the number of records in all_exhibitors is
\* the sum of the hit counts of the pages processed successfully, every
\* record belongs to such a page, and a page skipped after its retries were
\* exhausted has no record.
C2_CountIsSumOfProcessed ==
    /\ Len(all_exhibitors) = SumHits(processed)
    /\ \A k \in 1..Len(processed) :
          Cardinality(RecordsOf(processed[k].page)) = processed[k].hits
    /\ \A k \in 1..Len(skipped) : RecordsOf(skipped[k].page) = {}

C2_Witness ==
    /\ pc = "returned"
    /\ Len(processed) >= 1
    /\ Len(skipped) >= 1
    /\ Len(all_exhibitors) = 2
    /\ skipped[1].page > processed[1].page

\* C3: a page whose index request failed on every one of the max_retries
\* attempts has no record in all_exhibitors, the run has neither returned
\* nor raised when its retries are exhausted, the cursor moves past it, and
\* the request after its last one is for the next page.
C3_SkipAfterExhaustion ==
    /\ (max_retries > 0 /\ indexFails = max_retries) =>
          /\ pc \in {"sleep_fail", "for"}
          /\ error = "none"
          /\ RecordsOf(page) = {}
    /\ \A k \in 1..Len(skipped) :
          skipped[k].indexFails = max_retries =>
             LET p == skipped[k].page
             IN  /\ RecordsOf(p) = {}
                 /\ page > p
                 /\ \A j \in 1..(Len(requested) - 1) :
                       requested[j] = p => requested[j + 1] \in {p, p + 1}

C3_Witness ==
    /\ max_retries = 2
    /\ \E k \in 1..Len(skipped) :
          /\ skipped[k].indexFails = max_retries
          /\ requested # <<>>
          /\ requested[Len(requested)] = skipped[k].page + 1
          /\ \E j \in 1..Len(requested) : requested[j] = skipped[k].page
    /\ all_exhibitors # <<>>

\* C4: when the entity page answers with a non-OK status, parse_json returns
\* the eight index fields merged with four null contact fields, and does not
\* raise.
C4_NotOkGivesNullContact ==
    (called = "parse_json" /\ ValidUrl(enterprise_info) /\ answer = NotOkResponse)
        => record = Dict(Union(IndexFields(enterprise_info), AllNull))

\* C5: after the entity page of a hit answered non-OK or raised a transport
\* exception, the run has not ended with an error and the attempt goes on:
\* the hit is recorded with null contact fields and the comprehension
\* continues with the other hits.
C5_EnrichmentFailureNeverAborts ==
    lastScrape \in {"notok", "exception"} =>
        /\ pc \in {"parse", "sleep_ok", "for"}
        /\ error = "none"

\* C6: with an index that answers page 0 with 24 hits and page 1 with none,
\* and start_page = 0, the run does not raise, issues at most the requests
\* for page 0 and page 1, and when it has returned all_exhibitors holds
\* exactly 24 records after exactly 2 index requests.
C6_MockIndexScenario ==
    (index = "mock" /\ start_page = 0 /\ max_retries >= 1) =>
        /\ pc # "raised"
        /\ Len(requested) <= 2
        /\ pc = "returned" =>
              /\ Len(all_exhibitors) = HitsPerPage
              /\ requested = <<0, 1>>

\* C7: an OK index response that lacks results[0].hits ends the run with the
\* error, without retry or skip, and nothing else ends the run with an error.
C7_OnlyBadShapeIsFatal ==
    /\ lastResponse = "badshape" => pc = "raised" /\ error = "KeyError"
    /\ pc = "raised" => lastResponse = "badshape"

\* the string without a leading prefix, removed once
RemovePrefix(str, prefix) ==
    IF StartsAt(str, prefix, 1) THEN SubSeq(str, Len(prefix) + 1, Len(str)) ELSE str

AllLinked(soup) == \A c \in IconClasses : soup[c].icon /\ soup[c].a_tag /\ soup[c].has_href

\* C8: for a fetched page whose four markers all have an enclosing link with
\* an href, extract_extra_info returns email and phone_number as the hrefs
\* with a leading "mailto:" / "tel:" removed once, and web and linkedIn as
\* their hrefs, whatever the href strings are.
C8_AllMarkersPopulated ==
    (/\ called = "extract_extra_info"
     /\ ValidUrl(enterprise_info)
     /\ answer.tag = "response" /\ answer.ok
     /\ AllLinked(answer.soup))
        => extra_information =
              Dict([email |-> RemovePrefix(answer.soup[EMAIL_ICON].href, MAILTO),
                    phone_number |-> RemovePrefix(answer.soup[PHONE_ICON].href, TEL),
                    web |-> answer.soup[WEB_ICON].href,
                    linkedIn |-> answer.soup[LINKEDIN_ICON].href])

IconOf(field) ==
    IF field = "email" THEN EMAIL_ICON
    ELSE IF field = "phone_number" THEN PHONE_ICON
    ELSE IF field = "web" THEN WEB_ICON
    ELSE LINKEDIN_ICON

ContactFields == {"email", "phone_number", "web", "linkedIn"}

\* C9: for a fetched page extract_extra_info returns a dict in which a field
\* is null exactly when its marker is absent, has no enclosing link, or the
\* link has no href, and the field keeps its value when the marker of any
\* other field is changed.
C9_FieldsIndependent ==
    (/\ called = "extract_extra_info"
     /\ ValidUrl(enterprise_info)
     /\ answer.tag = "response" /\ answer.ok)
        => /\ extra_information.tag = "dict"
           /\ \A f \in ContactFields :
                LET m == answer.soup[IconOf(f)]
                IN  /\ extra_information.val[f] = None
                          <=> ~(m.icon /\ m.a_tag /\ m.has_href)
                    /\ \A g \in ContactFields \ {f} :
                          \A other \in MarkersOf(IconOf(g)) :
                             extract_extra_info(URL,
                                 OkResponse([answer.soup EXCEPT ![IconOf(g)] = other])).val[f]
                               = extra_information.val[f]

\* C10: for a raw hit whose url is absent, null or empty, parse_json returns
\* the index fields merged with four null contact fields, and does not raise.
C10_MissingUrlGivesNullContact ==
    (called = "parse_json" /\ ~ValidUrl(enterprise_info))
        => record = Dict(Union(IndexFields(enterprise_info), AllNull))

RECURSIVE JoinedInOrder(_)
\* the elements of xs in their order, ", " between neighbours
JoinedInOrder(xs) ==
    IF Len(xs) = 0 THEN <<>>
    ELSE IF Len(xs) = 1 THEN xs[1]
    ELSE JoinedInOrder(SubSeq(xs, 1, Len(xs) - 1)) \o <<",", " ">> \o xs[Len(xs)]

Requests(p) == Cardinality({k \in 1..Len(requested) : requested[k] = p})

\* C12: no page gets more than max_retries index requests; a skipped page
\* got exactly max_retries, one after the other, and none of them processed
\* it; and at the head of the for loop the attempt counter is the number of
\* requests issued for the current page, whatever happened on earlier pages.
C12_RetryBudgetPerPage ==
    /\ \A p \in 0..(MaxPage + 1) : Requests(p) <= max_retries
    /\ \A k \in 1..Len(skipped) :
          /\ Requests(skipped[k].page) = max_retries
          /\ \A j \in 1..Len(processed) : processed[j].page # skipped[k].page
    /\ \A j, k \in 1..Len(requested) :
          (j < k /\ requested[j] = requested[k]) =>
             \A m \in j..k : requested[m] = requested[j]
    /\ pc = "for" => attempt = Requests(page)

C12_Witness ==
    /\ max_retries = 2
    /\ Len(processed) = 1
    /\ Len(skipped) = 1
    /\ Requests(processed[1].page) = 2
    /\ skipped[1].page = processed[1].page + 1
    /\ pc = "for"

\* C13: over a run the entity page of a hit is requested at most once: a
\* step of the comprehension never requests the page of an entity whose page
\* was requested before.
C13_ScrapedOncePerEntity ==
    [][(pc = "parse" /\ ValidUrl(exhibitors[Len(parsed_exhibitors) + 1])) =>
          exhibitors[Len(parsed_exhibitors) + 1].externalId \notin scraped]_vars

\* C14: exactly one delay is taken between two consecutive index requests:
\* when the next request is about to be issued as many delays as requests
\* have been taken, and from a request until the delay that follows it,
\* through the entity-page fetches of all its hits, one fewer.
C14_OneDelayBetweenRequests ==
    /\ pc = "for" => delays = Len(requested)
    /\ pc \in {"parse", "sleep_ok", "sleep_fail", "returned", "raised"} =>
          delays + 1 = Len(requested)

C14_Witness ==
    /\ pc = "parse"
    /\ Len(parsed_exhibitors) = 1
    /\ delays = 3
    /\ Len(skipped) = 1
    /\ Len(processed) = 1
    /\ processed[1].hits = 2

\* the page and the position in its hit list that a record was parsed from
PageOf(rec) == CHOOSE p \in 0..(MaxPage + 1) : ToString(p) = rec.id[2]

HitOf(rec) == CHOOSE i \in 1..HitsPerPage : ToString(i) = rec.id[4]

IsPrefix(s, t) == Len(s) <= Len(t) /\ SubSeq(t, 1, Len(s)) = s

\* C15: all_exhibitors is append-only and ordered: every step leaves the
\* collection it had as a prefix of the collection it has, and of two
\* adjacent records the later one is the next hit of the same page or the
\* first hit of a later page.
C15_AppendOnlyOrdered ==
    /\ [][IsPrefix(all_exhibitors, all_exhibitors')]_vars
    /\ [](\A k \in 1..Len(all_exhibitors) :
            IF k = 1 \/ PageOf(all_exhibitors[k - 1]) # PageOf(all_exhibitors[k])
            THEN /\ HitOf(all_exhibitors[k]) = 1
                 /\ k > 1 => PageOf(all_exhibitors[k - 1]) < PageOf(all_exhibitors[k])
            ELSE HitOf(all_exhibitors[k]) = HitOf(all_exhibitors[k - 1]) + 1)

C15_Witness ==
    /\ Len(all_exhibitors) = 4
    /\ Len(processed) = 2
    /\ Len(skipped) = 1
    /\ skipped[1].page = 1

IndexKeys == {"id", "name", "interests", "url", "country", "is_startup",
              "stage", "founding"}

\* C16: every record of all_exhibitors has exactly the twelve keys, the
\* eight index-derived ones holding what the hit gave and the four contact
\* ones holding what the entity page gave.
C16_TwelveKeysNoCollision ==
    \A k \in 1..Len(all_exhibitors) :
        LET rec == all_exhibitors[k]
            hit == Hit(PageOf(rec), HitOf(rec), "valid")
        IN  /\ DOMAIN rec = IndexKeys \cup ContactFields
            /\ Cardinality(DOMAIN rec) = Cardinality(IndexKeys) + Cardinality(ContactFields)
            /\ \A f \in IndexKeys : rec[f] = IndexFields(hit)[f]
            /\ \A f \in ContactFields :
                  rec[f] = IF f = "email" THEN RemovePrefix(Site[IconOf(f)].href, MAILTO)
                           ELSE IF f = "phone_number"
                                THEN RemovePrefix(Site[IconOf(f)].href, TEL)
                                ELSE Site[IconOf(f)].href

C16_Witness ==
    /\ Len(all_exhibitors) = 3
    /\ all_exhibitors[3].url = URL
    /\ all_exhibitors[3].web = <<"w">>
    /\ all_exhibitors[3].email = <<"a">>
    /\ all_exhibitors[3].id = Id(1, 1)

\* C17: in every reachable state all_exhibitors holds, for each page, either
\* no record or exactly one record for each hit of the one attempt that
\* processed the page; while the hits of a page are being enriched, and
\* after an attempt on it failed, the page has no record.
C17_PageAtomicAtMostOnce ==
    \A p \in 0..(MaxPage + 1) :
        LET R == RecordsOf(p)
            done == {k \in 1..Len(processed) : processed[k].page = p}
        IN  /\ Cardinality(done) <= 1
            /\ done = {} => R = {}
            /\ (p = page /\ pc \in {"for", "parse", "sleep_fail"}) => R = {}
            /\ \A k \in done :
                  /\ Cardinality(R) = processed[k].hits
                  /\ {all_exhibitors[j].id : j \in R} =
                         {Id(p, i) : i \in 1..processed[k].hits}

C17_Witness ==
    /\ pc = "sleep_ok"
    /\ Len(processed) = 1
    /\ processed[1].hits = 2
    /\ Requests(processed[1].page) = 2
    /\ indexFails = 0
    /\ Len(all_exhibitors) = 2

\* C18: the page cursor starts at start_page and has advanced by one for
\* each page processed and each page skipped; the requested indices never
\* decrease, none exceeds the cursor, and every index the cursor has moved
\* past was requested at least once.
C18_CursorStepsThroughRequestedPages ==
    /\ page = start_page + Len(processed) + Len(skipped)
    /\ \A k \in 1..Len(requested) : requested[k] <= page
    /\ \A k \in 2..Len(requested) : requested[k - 1] <= requested[k]
    /\ \A q \in start_page..(page - 1) : Requests(q) >= 1

\* C19: when the index answers every request with an OK response, with hits
\* for page 0 and none for any later page, the cursor never moves past
\* page 1, the first page without hits: whatever max_retries is, the run
\* requests that page and returns there.
C19_ReturnsAtZeroHitPage ==
    index = "mock" => page <= 1

=============================================================================
